---- MODULE Spec2Model ----
(***************************************************************************)
(* Model of the daily batch-job runner: the dispatcher (_run_handlers and  *)
(* _discover_handlers of job_scheduler.py), the batch-loop controller      *)
(* (BaseHandler.run and _time_exceeded of base_handler.py) and the units   *)
(* of work: DeleteResourceHandler and DeleteWorkflowHandler, which the     *)
(* dispatcher constructs, and DeleteActorsHandler and MigrationHandler,    *)
(* which only their own constructors build.                                *)
(*                                                                         *)
(* The database is modelled by its committed rows.  No statement of the    *)
(* program updates a row, so a row is its primary key and its columns are  *)
(* fixed functions of the key.  Wall-clock time is counted in hours.       *)
(***************************************************************************)
EXTENDS Integers, Sequences, FiniteSets, TLC

\* ------------------------------------------------------------------ bounds

\* Longest scheduler.handler_modules list of the configuration.
MaxModules == 2
\* Rows of tb_workresourceinfo that match the deletion predicate.
MaxRows == 3
\* Rows of workflowruntimeitem that match the deletion predicate.
MaxItems == 2
\* Last hour of the modelled wall clock (hours since midnight of day 0).
MaxClock == 25
\* Longest duration of one _process_once invocation, in hours.
MaxBatchHours == 2
\* Rows of the migration source table that match the where clause.
MaxSource == 2
\* Most copies of one source row the target table is followed up to.
MaxCopies == 2
\* Most _process_once invocations of one run() call that are followed.
MaxCalls == 4

\* --------------------------------------------------------------- constants

DefaultBatchSize == 100
DefaultCutOffStr == <<23, 0, 0>>

\* ------------------------------------------------------------------ names

DeleteResourceHandler == "DeleteResourceHandler"
DeleteWorkflowHandler == "DeleteWorkflowHandler"
DeleteActorsHandler == "DeleteActorsHandler"
MigrationHandler == "MigrationHandler"

HandlerClasses ==
    {DeleteResourceHandler, DeleteWorkflowHandler, DeleteActorsHandler, MigrationHandler}

\* Module names a configuration may list; the last one cannot be imported.
ModuleNames ==
    {"delete_resource_handler", "delete_workflow_handler",
     "delete_actors_handler", "migration_handler", "no_such_module"}

\* The BaseHandler subclasses inspect.getmembers finds in a module, by name.
ModuleClasses(module_name) ==
    CASE module_name = "delete_resource_handler" -> <<DeleteResourceHandler>>
      [] module_name = "delete_workflow_handler" -> <<DeleteWorkflowHandler>>
      [] module_name = "delete_actors_handler" -> <<DeleteActorsHandler>>
      [] module_name = "migration_handler" -> <<MigrationHandler>>
      [] OTHER -> <<>>

\* importlib.import_module succeeds (under the name or under src.<name>).
Importable(module_name) == module_name # "no_such_module"

\* handler_cls.__name__.lower()
Lower(cls) ==
    CASE cls = DeleteResourceHandler -> "deleteresourcehandler"
      [] cls = DeleteWorkflowHandler -> "deleteworkflowhandler"
      [] cls = DeleteActorsHandler -> "deleteactorshandler"
      [] cls = MigrationHandler -> "migrationhandler"

\* ----------------------------------------------------------- configuration

\* dict.get(key, default)
DictGet(d, key, default) == IF key \in DOMAIN d THEN d[key] ELSE default

\* config.get_handler_config(handler_name): the handler's dict, or {}.
get_handler_config(handlers_section, handler_name) ==
    DictGet(handlers_section, handler_name, <<>>)

\* Faulty variant of parse_time: a string that is no time of day yields the
\* default cut-off instead of a ValueError.
parse_time_fallback(time_str) ==
    IF /\ Len(time_str) \in {2, 3}
       /\ time_str[1] \in 0..23
       /\ \A k \in 2..Len(time_str) : time_str[k] \in 0..59
    THEN [ok |-> TRUE,
          time |-> [hour |-> time_str[1], minute |-> time_str[2],
                    second |-> IF Len(time_str) = 3 THEN time_str[3] ELSE 0]]
    ELSE [ok |-> TRUE, time |-> [hour |-> 23, minute |-> 0, second |-> 0]]

\* A time string is modelled by its ":"-separated integer fields.
\* ConfigLoader.parse_time: [ok |-> FALSE] is the ValueError.
parse_time(time_str) ==
    IF Len(time_str) < 2 \/ Len(time_str) > 3
    THEN [ok |-> FALSE]
    ELSE LET hour == time_str[1]
             minute == time_str[2]
             second == IF Len(time_str) = 3 THEN time_str[3] ELSE 0
         IN IF hour \in 0..23 /\ minute \in 0..59 /\ second \in 0..59
            THEN [ok |-> TRUE,
                  time |-> [hour |-> hour, minute |-> minute, second |-> second]]
            ELSE [ok |-> FALSE]

\* datetime.time comparison a >= b.
TimeGE(a, b) ==
    \/ a.hour > b.hour
    \/ a.hour = b.hour /\ a.minute > b.minute
    \/ a.hour = b.hour /\ a.minute = b.minute /\ a.second >= b.second

\* _discover_handlers: classes of the importable modules, in configured order.
RECURSIVE _discover_handlers(_)
_discover_handlers(modules) ==
    IF modules = <<>> THEN <<>>
    ELSE IF Importable(Head(modules))
         THEN ModuleClasses(Head(modules)) \o _discover_handlers(Tail(modules))
         ELSE _discover_handlers(Tail(modules))

\* ------------------------------------------------------------------ schema

\* tb_workresourceinfo: rows 1..MaxRows match Deleted=1 AND CreatedAt < 30
\* days ago; row MaxRows+1 does not.
WorkInfoIds == 1..(MaxRows + 1)
WorkInfoStale(id) == id <= MaxRows
\* Column ResourceId; 0 stands for NULL (row 1 has none).
ResourceIdOf(id) == IF id = 1 THEN 0 ELSE id
ResourceItemIds == {ResourceIdOf(id) : id \in WorkInfoIds} \ {0}

\* workflowruntimeitem: rows 1..MaxItems match Deleted=1 AND
\* Status='ASSCPTED' AND CreatedAt < 30 days ago; row MaxItems+1 does not.
ItemIds == 1..(MaxItems + 1)
ItemStale(id) == id <= MaxItems
\* workflowruntimesteps: step 10+i belongs to item i (column runtimeitemid)
\* and carries the same value in column ItemId.
StepIds == {10 + i : i \in ItemIds}
RuntimeItemIdOf(step) == step - 10
ItemIdOf(step) == step - 10
\* workflowruntimeactors: actors 2s and 2s+1 belong to step s (column
\* runtimestepid); the odd ones have Status='PROCESSING'.
ActorIds == UNION {{2 * st, 2 * st + 1} : st \in StepIds}
RuntimeStepIdOf(actor) == actor \div 2
ActorProcessing(actor) == actor % 2 = 1
\* workflowruntimeitems: the rows with Status='ASSCPTED' created more than
\* 90 days ago.
OldItemIds == {1}
\* workflowruntimeitems: the rows with Status='ACCEPTED' created more than 90
\* days ago.  Every step is ACCEPTED and not soft-deleted, every actor is
\* Active and not soft-deleted.
AcceptedItemIds == ItemIds \ OldItemIds
\* The source table of MigrationHandler: rows 1..MaxSource match the where
\* clause.
SourceIds == 1..MaxSource

\* The n smallest elements of S: ORDER BY Id LIMIT n.
RECURSIVE OrderByIdLimit(_, _)
OrderByIdLimit(S, n) ==
    IF n = 0 \/ S = {} THEN {}
    ELSE LET least == CHOOSE x \in S : \A y \in S : x <= y
         IN {least} \cup OrderByIdLimit(S \ {least}, n - 1)

\* ------------------------------------------------------------------- state

VARIABLES
    handler_modules,        \* config: scheduler.handler_modules
    handlers_section,       \* config: handlers (handler name -> dict)
    clock,                  \* wall clock, hours since midnight of day 0
    pc,                     \* position of the single thread of control
    handlers,               \* _run_handlers: the list _discover_handlers returned
    idx,                    \* _run_handlers: loop iterations completed
    handler,                \* _run_handlers: the local variable `handler`
    done,                   \* history: what each loop iteration did
    rstate,                 \* run(): controller state of the latest run() call
    calls,                  \* run(): _process_once invocations of this call
    results,                \* run(): what each invocation returned or raised
    runlog,                 \* run(): its log entries of this call, in order
    db_error,               \* the database operation that failed in this batch
    batch_start,            \* committed workflow tables when this batch began
    locals,                 \* DeleteWorkflowHandler: locals of the batch
    tb_workresourceinfo,    \* committed rows (Id) of each table
    basic_resourceitem,
    workflowruntimeitem,
    workflowruntimesteps,
    workflowruntimeactors,
    workflowruntimeitems,
    source_table,           \* MigrationHandler: rows of the source table
    target_table,           \* MigrationHandler: copies of each row in the target
    conns,                  \* database connections the handler holds open
    selected                \* history: what the latest SELECT of parent rows in
                            \* this run() matched and returned, and the rows
                            \* its earlier SELECTs returned

config_vars == <<handler_modules, handlers_section, workflowruntimeitems>>
resource_tables == <<tb_workresourceinfo, basic_resourceitem>>
workflow_tables == <<workflowruntimeitem, workflowruntimesteps, workflowruntimeactors>>
dispatch_vars == <<handlers, idx, handler, done>>
run_vars == <<rstate, calls, results, runlog>>
migration_tables == <<source_table, target_table>>
vars == <<config_vars, clock, pc, dispatch_vars, run_vars, db_error, batch_start,
          locals, resource_tables, workflow_tables, migration_tables, conns,
          selected>>

\* The local variable `handler` before its first assignment.
Unbound == [bound |-> FALSE]
NoLocals ==
    [item_ids |-> {}, step_ids |-> {}, processing_finished |-> TRUE, records |-> {}]
WorkflowSnapshot ==
    [item |-> workflowruntimeitem, steps |-> workflowruntimesteps,
     actors |-> workflowruntimeactors, target |-> target_table]

\* A SELECT of parent rows on `table` matched `candidates` and returned `ids`.
Select(table, ids, candidates) ==
    selected' = [table |-> table, ids |-> ids, candidates |-> candidates,
                 earlier |-> selected.earlier
                                \cup {<<selected.table, id>> : id \in selected.ids}]

\* A database operation of the batch raised: before the SELECT of parent
\* rows returned (its connect or the SELECT itself), or after it had
\* returned `ids`.
SelectThenFail(table, ids, candidates) ==
    \/ UNCHANGED selected
    \/ Select(table, ids, candidates)

\* No SELECT of parent rows yet in this run().
NoneSelected == [table |-> "", ids |-> {}, candidates |-> {}, earlier |-> {}]

\* datetime.datetime.now().time()
Now == [hour |-> clock % 24, minute |-> 0, second |-> 0]

\* Faulty variants of _time_exceeded: a strict comparison, and one of the hours alone.
_time_exceeded_strict == ~TimeGE(handler.cut_off_time, Now)
_time_exceeded_hours == Now.hour >= handler.cut_off_time.hour

\* BaseHandler._time_exceeded
_time_exceeded == TimeGE(Now, handler.cut_off_time)

\* ------------------------------------------------------------- run(): exits

\* Faulty variant of ExitLog: the teardown entry is written after the try
\* statement instead of in a finally clause, so a raising run() skips it.
ExitLogNoFinally(state) ==
    CASE state = "FINISHED" -> <<"completed", "teardown">>
      [] state = "DEFERRED" -> <<"deferred", "teardown">>
      [] state = "FAILED" -> <<"exception">>

\* Faulty variant of ExitLog: the deferral warning is written after the loop
\* instead of in its else clause, so a break does not skip it.
ExitLogNoElse(state) ==
    CASE state = "FINISHED" -> <<"completed", "deferred", "teardown">>
      [] state = "DEFERRED" -> <<"deferred", "teardown">>
      [] state = "FAILED" -> <<"exception", "teardown">>

\* The log entries run() writes when it leaves the loop in `state`, the
\* finally clause last.
ExitLog(state) ==
    CASE state = "FINISHED" -> <<"completed", "teardown">>
      [] state = "DEFERRED" -> <<"deferred", "teardown">>
      [] state = "FAILED" -> <<"exception", "teardown">>

\* Faulty variant of RunRaises: the except clause swallows the exception.
RunSwallows(state) == FALSE

\* run() re-raises the exception its except clause caught.
RunRaises(state) == state = "FAILED"

\* Faulty variant of AfterBatch: the loop does not break on a finished batch.
AfterBatchNoBreak(result) == IF result = "raise" THEN "FAILED" ELSE "LOOPING"

\* The controller state after _process_once returned or raised `result`.
AfterBatch(result) ==
    CASE result = "False" -> "LOOPING"
      [] result = "True" -> "FINISHED"
      [] result = "raise" -> "FAILED"

\* Faulty variant of RunExit: after an exception _run_handlers stays at the
\* handler class that failed.
RunExitRetry(state) ==
    /\ rstate' = state
    /\ runlog' = runlog \o ExitLog(state)
    /\ done' = Append(done, [cls |-> handlers[idx + 1], inst |-> handler.id,
                             inst_cls |-> handler.cls, result |-> state,
                             failed |-> RunRaises(state)])
    /\ idx' = IF RunRaises(state) THEN idx ELSE idx + 1
    /\ pc' = "dispatch"

\* run() ends in `state`; _run_handlers logs the exception if one came out
\* and goes on with the next handler class.
RunExit(state) ==
    /\ rstate' = state
    /\ runlog' = runlog \o ExitLog(state)
    /\ done' = Append(done, [cls |-> handlers[idx + 1], inst |-> handler.id,
                             inst_cls |-> handler.cls, result |-> state,
                             failed |-> RunRaises(state)])
    /\ idx' = idx + 1
    /\ pc' = "dispatch"

\* Faulty variant of ProcessReturn: after a finished batch the cut-off is
\* checked before the loop is left, and a run past it ends deferred.
ProcessReturnRecheck(result, d) ==
    /\ results' = Append(results, result)
    /\ clock' = clock + d
    /\ IF AfterBatch(result) = "LOOPING"
       THEN /\ pc' = "run_check"
            /\ UNCHANGED <<rstate, runlog, done, idx>>
       ELSE IF /\ result = "True"
               /\ TimeGE([hour |-> (clock + d) % 24, minute |-> 0, second |-> 0],
                         handler.cut_off_time)
            THEN RunExit("DEFERRED")
            ELSE RunExit(AfterBatch(result))

\* _process_once returned or raised `result` after d hours.
ProcessReturn(result, d) ==
    /\ results' = Append(results, result)
    /\ clock' = clock + d
    /\ IF AfterBatch(result) = "LOOPING"
       THEN /\ pc' = "run_check"
            /\ UNCHANGED <<rstate, runlog, done, idx>>
       ELSE RunExit(AfterBatch(result))

\* The first statement of each class's _process_once.
ProcessEntry(cls) ==
    CASE cls = DeleteResourceHandler -> "resource_process"
      [] cls = DeleteWorkflowHandler -> "wf_select"
      [] cls = DeleteActorsHandler -> "actors_process"
      [] cls = MigrationHandler -> "mig_fetch"

\* What _process_once does with an exception of a database operation: the
\* except clauses of DeleteWorkflowHandler and DeleteActorsHandler return
\* True, DeleteResourceHandler and MigrationHandler have none.
OnDbError(cls) ==
    IF cls \in {DeleteWorkflowHandler, DeleteActorsHandler} THEN "True" ELSE "raise"

\* ------------------------------------------------------------ _run_handlers

\* _run_handlers up to the loop: discovery.
RunHandlersEntry ==
    /\ pc = "start"
    /\ handlers' = _discover_handlers(handler_modules)
    /\ pc' = "dispatch"
    /\ UNCHANGED <<config_vars, migration_tables, conns, clock, idx, handler,
                   done, run_vars, db_error, selected,
                   batch_start, locals, resource_tables, workflow_tables>>

\* The classes the if statement of the loop body constructs.
Constructed(cls) == cls \in {DeleteResourceHandler, DeleteWorkflowHandler}

\* One loop iteration up to the entry of handler.run(), or the whole
\* iteration when an exception ends it before.
DispatchNext ==
    /\ pc = "dispatch"
    /\ idx < Len(handlers)
    /\ LET handler_cls == handlers[idx + 1]
           handler_config == get_handler_config(handlers_section, Lower(handler_cls))
           cut_off_time == parse_time(DictGet(handler_config, "cut_off_time",
                                              DefaultCutOffStr))
           h == IF cut_off_time.ok /\ Constructed(handler_cls)
                THEN [bound |-> TRUE, id |-> idx + 1, cls |-> handler_cls,
                      batch_size |-> DictGet(handler_config, "batch_size",
                                             DefaultBatchSize),
                      cut_off_time |-> cut_off_time.time]
                ELSE handler
       IN /\ handler' = h
          /\ IF cut_off_time.ok /\ h.bound
             THEN /\ pc' = "run_check"
                  /\ rstate' = "LOOPING"
                  /\ calls' = 0
                  /\ results' = <<>>
                  /\ runlog' = <<"started">>
                  /\ UNCHANGED <<idx, done>>
             ELSE \* ValueError of parse_time, or UnboundLocalError
                  /\ done' = Append(done, [cls |-> handler_cls, inst |-> 0,
                                           inst_cls |-> "", result |-> "NOT_RUN",
                                           failed |-> TRUE])
                  /\ idx' = idx + 1
                  /\ rstate' = "NOT_STARTED"
                  /\ calls' = 0
                  /\ results' = <<>>
                  /\ runlog' = <<>>
                  /\ UNCHANGED pc
    /\ db_error' = "none"
    /\ batch_start' = WorkflowSnapshot
    /\ selected' = NoneSelected
    /\ UNCHANGED <<config_vars, migration_tables, conns, clock, handlers,
                   locals, resource_tables,
                   workflow_tables>>

\* The loop is exhausted: _run_handlers returns.
DispatchReturn ==
    /\ pc = "dispatch"
    /\ idx = Len(handlers)
    /\ pc' = "done"
    /\ UNCHANGED <<config_vars, migration_tables, conns, clock, dispatch_vars,
                   run_vars, db_error, selected,
                   batch_start, locals, resource_tables, workflow_tables>>

\* -------------------------------------------------------------------- run()

\* The while condition of run(): leave the loop deferred, or invoke
\* _process_once.
TimeCheck ==
    /\ pc = "run_check"
    /\ IF _time_exceeded
       THEN /\ RunExit("DEFERRED")
            /\ UNCHANGED <<calls, db_error, batch_start>>
       ELSE /\ calls < MaxCalls
            /\ pc' = ProcessEntry(handler.cls)
            /\ calls' = calls + 1
            /\ db_error' = "none"
            /\ batch_start' = WorkflowSnapshot
            /\ UNCHANGED <<rstate, runlog, done, idx>>
    /\ UNCHANGED <<config_vars, migration_tables, conns, clock, handlers,
                   handler, results, locals, selected,
                   resource_tables, workflow_tables>>

\* ---------------------------------------- DeleteResourceHandler._process_once

\* Faulty variant of ResourceBatchResult: a batch that selected fewer rows
\* than its limit reports finished.
ResourceBatchResultPartial(ids, batch_size) ==
    IF Cardinality(ids) < batch_size THEN "True" ELSE "False"

\* What _process_once returns after its SELECT ... LIMIT batch_size found
\* the rows `ids`: finished when there were none, else not finished.
ResourceBatchResult(ids, batch_size) == IF ids = {} THEN "True" ELSE "False"

ResourceProcessOnce ==
    /\ pc = "resource_process"
    /\ \E ok \in BOOLEAN, d \in 0..MaxBatchHours :
        /\ clock + d <= MaxClock
        /\ LET candidates == {id \in tb_workresourceinfo : WorkInfoStale(id)}
               ids == OrderByIdLimit(candidates, handler.batch_size)
               resource_ids == {ResourceIdOf(id) : id \in ids} \ {0}
           IN IF ~ok
              THEN /\ db_error' = "resource"
                   /\ UNCHANGED resource_tables
                   /\ SelectThenFail("tb_workresourceinfo", ids, candidates)
                   /\ ProcessReturn(OnDbError(handler.cls), d)
              ELSE /\ db_error' = db_error
                   /\ tb_workresourceinfo' = tb_workresourceinfo \ ids
                   /\ basic_resourceitem' = basic_resourceitem \ resource_ids
                   /\ Select("tb_workresourceinfo", ids, candidates)
                   /\ ProcessReturn(ResourceBatchResult(ids, handler.batch_size), d)
    /\ UNCHANGED <<config_vars, migration_tables, conns, handlers, handler,
                   calls, batch_start, locals,
                   workflow_tables>>

\* ---------------------------------------- DeleteWorkflowHandler._process_once

\* Faulty variant of WfFail: the connections are not obtained in with
\* statements, so the exception leaves them open.
WfFailLeak(step, d) ==
    /\ db_error' = step
    /\ locals' = NoLocals
    /\ conns' = conns
    /\ UNCHANGED workflow_tables
    /\ ProcessReturn(OnDbError(handler.cls), d)

\* A database operation of the batch raised: every enclosing handler rolls
\* back and re-raises, the with statements close the connections, and
\* _process_once ends the invocation.
WfFail(step, d) ==
    /\ db_error' = step
    /\ locals' = NoLocals
    /\ conns' = {}
    /\ UNCHANGED workflow_tables
    /\ ProcessReturn(OnDbError(handler.cls), d)

\* _process_workflowruntimeitem: the SELECT of the batch's items, and the
\* SELECT of their steps in _process_steps.
WfSelect ==
    /\ pc = "wf_select"
    /\ \E ok \in BOOLEAN, d \in 0..MaxBatchHours :
        /\ clock + d <= MaxClock
        /\ LET candidates == {i \in workflowruntimeitem : ItemStale(i)}
               rows == OrderByIdLimit(candidates, handler.batch_size)
               rows_steps == {s \in workflowruntimesteps : RuntimeItemIdOf(s) \in rows}
           IN IF ~ok
              THEN /\ WfFail("select", d)
                   /\ SelectThenFail("workflowruntimeitem", rows, candidates)
              ELSE /\ d = 0
                   /\ locals' = [item_ids |-> rows, step_ids |-> rows_steps,
                                 processing_finished |-> rows = {}, records |-> {}]
                   /\ pc' = IF rows = {} THEN "wf_clean"
                            ELSE IF rows_steps = {} THEN "wf_steps" ELSE "wf_actors"
                   /\ conns' = IF rows = {} THEN {} ELSE {"items", "steps"}
                   /\ Select("workflowruntimeitem", rows, candidates)
                   /\ UNCHANGED <<clock, idx, done, rstate, results, runlog,
                                  db_error, workflow_tables>>
    /\ UNCHANGED <<config_vars, migration_tables, handlers, handler, calls, batch_start,
                   resource_tables>>

\* Faulty variant of WfActors: the DELETE of the actors is never committed.
WfActorsNoCommit ==
    /\ pc = "wf_actors"
    /\ pc' = "wf_steps"
    /\ UNCHANGED <<config_vars, migration_tables, conns, clock, dispatch_vars,
                   run_vars, db_error, selected,
                   batch_start, locals, resource_tables, workflow_tables>>

\* _process_actors: DELETE of the actors of the batch's steps, and commit.
WfActors ==
    /\ pc = "wf_actors"
    /\ \E ok \in BOOLEAN, d \in 0..MaxBatchHours :
        /\ clock + d <= MaxClock
        /\ IF ~ok
           THEN /\ WfFail("actors", d)
                /\ UNCHANGED selected
           ELSE /\ d = 0
                /\ workflowruntimeactors' =
                       {a \in workflowruntimeactors :
                            RuntimeStepIdOf(a) \notin locals.step_ids}
                /\ pc' = "wf_steps"
                /\ UNCHANGED <<clock, idx, done, rstate, results, runlog, db_error,
                               selected, locals, workflowruntimeitem, workflowruntimesteps,
                               conns>>
    /\ UNCHANGED <<config_vars, migration_tables, handlers, handler, calls, batch_start,
                   resource_tables>>

\* _process_steps: DELETE of the steps of the batch's items, and commit.
WfSteps ==
    /\ pc = "wf_steps"
    /\ \E ok \in BOOLEAN, d \in 0..MaxBatchHours :
        /\ clock + d <= MaxClock
        /\ IF ~ok
           THEN /\ WfFail("steps", d)
                /\ UNCHANGED selected
           ELSE /\ d = 0
                /\ workflowruntimesteps' =
                       {s \in workflowruntimesteps :
                            RuntimeItemIdOf(s) \notin locals.item_ids}
                /\ pc' = "wf_items"
                /\ conns' = conns \ {"steps"}
                /\ UNCHANGED <<clock, idx, done, rstate, results, runlog, db_error,
                               selected, locals, workflowruntimeitem, workflowruntimeactors>>
    /\ UNCHANGED <<config_vars, migration_tables, handlers, handler, calls, batch_start,
                   resource_tables>>

\* _process_workflowruntimeitem: DELETE of the batch's items, and commit.
WfItems ==
    /\ pc = "wf_items"
    /\ \E ok \in BOOLEAN, d \in 0..MaxBatchHours :
        /\ clock + d <= MaxClock
        /\ IF ~ok
           THEN /\ WfFail("items", d)
                /\ UNCHANGED selected
           ELSE /\ d = 0
                /\ workflowruntimeitem' = workflowruntimeitem \ locals.item_ids
                /\ pc' = "wf_clean"
                /\ conns' = conns \ {"items"}
                /\ UNCHANGED <<clock, idx, done, rstate, results, runlog, db_error,
                               selected, locals, workflowruntimesteps, workflowruntimeactors>>
    /\ UNCHANGED <<config_vars, migration_tables, handlers, handler, calls, batch_start,
                   resource_tables>>

\* _clean_by_deleted_items, and the return of _process_once.
WfClean ==
    /\ pc = "wf_clean"
    /\ \E ok \in BOOLEAN, d \in 0..MaxBatchHours :
        /\ clock + d <= MaxClock
        /\ LET candidates == workflowruntimeitems \cap OldItemIds
               old_item_ids == OrderByIdLimit(candidates, handler.batch_size)
               step_ids == {s \in workflowruntimesteps : ItemIdOf(s) \in old_item_ids}
           IN IF ~ok
              THEN /\ WfFail("clean", d)
                   /\ SelectThenFail("workflowruntimeitems", old_item_ids, candidates)
              ELSE /\ workflowruntimeactors' =
                          {a \in workflowruntimeactors :
                               ~(RuntimeStepIdOf(a) \in step_ids /\ ActorProcessing(a))}
                   /\ locals' = NoLocals
                   /\ db_error' = db_error
                   /\ Select("workflowruntimeitems", old_item_ids, candidates)
                   /\ UNCHANGED <<workflowruntimeitem, workflowruntimesteps, conns>>
                   /\ ProcessReturn(IF locals.processing_finished THEN "True"
                                    ELSE "False", d)
    /\ UNCHANGED <<config_vars, migration_tables, handlers, handler, calls, batch_start,
                   resource_tables>>

\* ------------------------------------------ DeleteActorsHandler._process_once

\* The rows the SELECT of _clean_complete_actors matches: ACCEPTED items
\* older than 90 days that have a step with a PROCESSING actor.
ActorCandidates(items, steps, actors) ==
    {i \in items \cap AcceptedItemIds :
        \E st \in steps, a \in actors :
            /\ RuntimeItemIdOf(st) = i
            /\ RuntimeStepIdOf(a) = st
            /\ ActorProcessing(a)}

\* Faulty variant of ActorsAfterDelete: the DELETE takes the actors that are
\* not PROCESSING.
ActorsAfterDeleteOthers(actors, step_ids) ==
    {a \in actors : ~(RuntimeStepIdOf(a) \in step_ids /\ ~ActorProcessing(a))}

\* The actors left by DELETE ... WHERE RuntimeStepId IN (step_ids) AND
\* Active = 1 AND Status = 'PROCESSING'.
ActorsAfterDelete(actors, step_ids) ==
    {a \in actors : ~(RuntimeStepIdOf(a) \in step_ids /\ ActorProcessing(a))}

\* _process_once and _clean_complete_actors: one connection, one transaction.
_clean_complete_actors ==
    /\ pc = "actors_process"
    /\ \E ok \in BOOLEAN, d \in 0..MaxBatchHours :
        /\ clock + d <= MaxClock
        /\ LET candidates == ActorCandidates(workflowruntimeitems,
                                             workflowruntimesteps,
                                             workflowruntimeactors)
               item_ids == OrderByIdLimit(candidates, handler.batch_size)
               step_ids == {st \in workflowruntimesteps :
                               RuntimeItemIdOf(st) \in item_ids}
           IN IF ~ok
              THEN /\ db_error' = "actors_clean"
                   /\ UNCHANGED workflow_tables
                   /\ SelectThenFail("workflowruntimeitems", item_ids, candidates)
                   /\ ProcessReturn(OnDbError(handler.cls), d)
              ELSE /\ db_error' = db_error
                   /\ workflowruntimeactors' =
                          ActorsAfterDelete(workflowruntimeactors, step_ids)
                   /\ UNCHANGED <<workflowruntimeitem, workflowruntimesteps>>
                   /\ Select("workflowruntimeitems", item_ids, candidates)
                   /\ ProcessReturn(IF item_ids = {} THEN "True" ELSE "False", d)
    /\ UNCHANGED <<config_vars, migration_tables, conns, handlers, handler, calls,
                   batch_start, locals, resource_tables>>

\* --------------------------------------------- MigrationHandler._process_once

\* The results SELECT * ... LIMIT n can return: without ORDER BY, any n of
\* the matching rows (all of them when there are no more than n).
AnyLimit(S, n) ==
    {recs \in SUBSET S :
        Cardinality(recs) = IF Cardinality(S) < n THEN Cardinality(S) ELSE n}

\* _process_once up to the call of _migrate_to_target: the batch is read on
\* its own connection, which is closed when the rows are returned.
_fetch_batch_from_source ==
    /\ pc = "mig_fetch"
    /\ \E ok \in BOOLEAN, d \in 0..MaxBatchHours :
        /\ clock + d <= MaxClock
        /\ IF ~ok
           THEN /\ db_error' = "fetch"
                /\ locals' = locals
                /\ UNCHANGED selected
                /\ ProcessReturn(OnDbError(handler.cls), d)
           ELSE \E records \in AnyLimit(source_table, handler.batch_size) :
                  /\ db_error' = db_error
                  /\ Select("source", records, source_table)
                  /\ IF records = {}
                     THEN /\ locals' = locals
                          /\ ProcessReturn("True", d)
                     ELSE /\ d = 0
                          /\ locals' = [locals EXCEPT !.records = records]
                          /\ pc' = "mig_insert"
                          /\ UNCHANGED <<clock, idx, done, rstate, results, runlog>>
    /\ UNCHANGED <<config_vars, migration_tables, conns, handlers, handler, calls,
                   batch_start, resource_tables, workflow_tables>>

\* The rows of the batch the target holds after the commit: the except
\* clause in the loop logs a failing INSERT and goes on with the next row.
InsertedRows(records, failing) == records \ failing

\* _migrate_to_target and the return of _process_once: the rows `failing`
\* raise in cursor.execute; _mark_as_migrated is not called.
_migrate_to_target ==
    /\ pc = "mig_insert"
    /\ \E ok \in BOOLEAN, d \in 0..MaxBatchHours, failing \in SUBSET locals.records :
        /\ clock + d <= MaxClock
        /\ IF ~ok
           THEN /\ db_error' = "target"
                /\ UNCHANGED target_table
                /\ ProcessReturn(OnDbError(handler.cls), d)
           ELSE LET inserted == InsertedRows(locals.records, failing)
                IN /\ \A id \in inserted : target_table[id] < MaxCopies
                   /\ db_error' = IF failing = {} THEN db_error ELSE "insert"
                   /\ target_table' =
                          [id \in DOMAIN target_table |->
                              target_table[id] + (IF id \in inserted THEN 1 ELSE 0)]
                   /\ ProcessReturn("False", d)
    /\ locals' = NoLocals
    /\ UNCHANGED <<config_vars, source_table, conns, handlers, handler, calls, selected,
                   batch_start, resource_tables, workflow_tables>>

\* ---------------------------------------------------------- specifications

\* Every list of at most MaxModules module names.
RECURSIVE ModuleLists(_)
ModuleLists(n) ==
    IF n = 0 THEN {<<>>}
    ELSE LET shorter == ModuleLists(n - 1)
         IN shorter \cup {Append(l, m) : l \in {s \in shorter : Len(s) = n - 1},
                                         m \in ModuleNames}

\* Cut-off strings of the configuration: "22:30", "23:00:00", "24:00" (no
\* such hour) and "23" (no colon).
CutOffStrs == {<<22, 30>>, <<23, 0, 0>>, <<24, 0>>, <<23>>}
BadCutOffStrs == {<<24, 0>>, <<23>>}
BatchSizes == {1, 2}

\* The handlers section: absent, or one dict shared by the two handlers the
\* dispatcher constructs, or a bad cut_off_time for a single handler.
HandlerSections ==
    {<<>>} \cup
    {[n \in {Lower(DeleteResourceHandler), Lower(DeleteWorkflowHandler)} |->
          [batch_size |-> bs, cut_off_time |-> co]] :
        bs \in BatchSizes, co \in CutOffStrs} \cup
    {[n \in {Lower(cls)} |-> [cut_off_time |-> <<24, 0>>]] : cls \in HandlerClasses}

\* The workflow tables when the run starts: complete, or as a crash of an
\* earlier run left them (item 1 gone with its step left behind, the steps of
\* item 2 gone with their actors left behind, no actors at all).
InitialWorkflowTables ==
    {<<i, s, a>> : i \in {ItemIds, ItemIds \ {1}},
                   s \in {StepIds, StepIds \ {12}},
                   a \in {ActorIds, {}}}
InitialResourceTables ==
    {<<WorkInfoIds, ResourceItemIds>>, <<{MaxRows + 1}, ResourceItemIds>>}

Init ==
    /\ handler_modules \in ModuleLists(MaxModules)
    /\ handlers_section \in HandlerSections
    /\ clock \in {21, 22, 23}
    /\ pc = "start"
    /\ handlers = <<>>
    /\ idx = 0
    /\ handler = Unbound
    /\ done = <<>>
    /\ rstate = "NOT_STARTED"
    /\ calls = 0
    /\ results = <<>>
    /\ runlog = <<>>
    /\ db_error = "none"
    /\ locals = NoLocals
    /\ selected = NoneSelected
    /\ \E t \in InitialResourceTables :
          /\ tb_workresourceinfo = t[1]
          /\ basic_resourceitem = t[2]
    /\ \E t \in (IF Len(handler_modules) <= 1 THEN InitialWorkflowTables
                 ELSE {<<ItemIds, StepIds, ActorIds>>}) :
          /\ workflowruntimeitem = t[1]
          /\ workflowruntimesteps = t[2]
          /\ workflowruntimeactors = t[3]
    /\ workflowruntimeitems \in SUBSET OldItemIds
    /\ source_table = SourceIds
    /\ target_table = [id \in SourceIds |-> 0]
    /\ batch_start = WorkflowSnapshot
    /\ conns = {}

Next ==
    \/ RunHandlersEntry
    \/ DispatchNext
    \/ DispatchReturn
    \/ TimeCheck
    \/ ResourceProcessOnce
    \/ WfSelect
    \/ WfActors
    \/ WfSteps
    \/ WfItems
    \/ WfClean

Spec == Init /\ [][Next]_vars

\* A handler of any of the four classes, constructed with its own
\* constructor and run by its caller (the dispatcher constructs only two of
\* the classes).

\* The cut-off times a constructor can be given.
CutOffTimes == {parse_time(co).time : co \in {c \in CutOffStrs : parse_time(c).ok}}

\* The tables a handler of class cls can find: those of the other handlers
\* are complete; the workflow tables may also hold no item that matches
\* while the steps and actors of an old workflowruntimeitems row remain.
InitialStores(cls) ==
    LET complete == [resource |-> <<WorkInfoIds, ResourceItemIds>>,
                     workflow |-> <<ItemIds, StepIds, ActorIds>>,
                     items |-> OldItemIds,
                     source |-> SourceIds]
        workflow == InitialWorkflowTables \cup {<<{MaxItems + 1}, StepIds, ActorIds>>}
    IN CASE cls = DeleteResourceHandler ->
              {[complete EXCEPT !.resource = t] : t \in InitialResourceTables}
         [] cls = DeleteWorkflowHandler ->
              {[complete EXCEPT !.workflow = t, !.items = i] :
                  t \in workflow, i \in SUBSET OldItemIds}
         [] cls = DeleteActorsHandler ->
              {[complete EXCEPT !.workflow = t, !.items = i] :
                  t \in workflow,
                  i \in {OldItemIds \cup a : a \in SUBSET AcceptedItemIds}}
         [] cls = MigrationHandler ->
              {[complete EXCEPT !.source = src] : src \in SUBSET SourceIds}

InitHandler ==
    /\ handler_modules = <<>>
    /\ handlers_section = <<>>
    /\ clock \in {21, 22, 23}
    /\ pc = "main"
    /\ handlers \in {<<cls>> : cls \in HandlerClasses}
    /\ idx = 0
    /\ handler = Unbound
    /\ done = <<>>
    /\ rstate = "NOT_STARTED"
    /\ calls = 0
    /\ results = <<>>
    /\ runlog = <<>>
    /\ db_error = "none"
    /\ locals = NoLocals
    /\ selected = NoneSelected
    /\ \E t \in InitialStores(handlers[1]) :
          /\ tb_workresourceinfo = t.resource[1]
          /\ basic_resourceitem = t.resource[2]
          /\ workflowruntimeitem = t.workflow[1]
          /\ workflowruntimesteps = t.workflow[2]
          /\ workflowruntimeactors = t.workflow[3]
          /\ workflowruntimeitems = t.items
          /\ source_table = t.source
    /\ target_table = [id \in SourceIds |-> 0]
    /\ batch_start = WorkflowSnapshot
    /\ conns = {}

\* The caller constructs a handler of the class handlers[1] and calls its
\* run(), which logs the start and enters the loop.
HandlerRun ==
    /\ pc = "main"
    /\ \E batch_size \in BatchSizes, cut_off_time \in CutOffTimes :
          handler' = [bound |-> TRUE, id |-> 1, cls |-> handlers[1],
                      batch_size |-> batch_size, cut_off_time |-> cut_off_time]
    /\ pc' = "run_check"
    /\ rstate' = "LOOPING"
    /\ calls' = 0
    /\ results' = <<>>
    /\ runlog' = <<"started">>
    /\ selected' = NoneSelected
    /\ UNCHANGED <<config_vars, migration_tables, conns, clock, handlers, idx, done,
                   db_error, batch_start, locals, resource_tables, workflow_tables>>

NextHandler ==
    \/ HandlerRun
    \/ TimeCheck
    \/ ResourceProcessOnce
    \/ WfSelect
    \/ WfActors
    \/ WfSteps
    \/ WfItems
    \/ WfClean
    \/ _clean_complete_actors
    \/ _fetch_batch_from_source
    \/ _migrate_to_target

SpecHandler == InitHandler /\ [][NextHandler]_vars

\* The same with the one thread of control going on while it can take a step.
SpecHandlerFair == InitHandler /\ [][NextHandler]_vars /\ WF_vars(NextHandler)

\* ------------------------------------------------------------------ claims

Terminal == {"FINISHED", "DEFERRED", "FAILED"}
\* The positions inside _process_once.
InBatch == {"resource_process", "wf_select", "wf_actors", "wf_steps", "wf_items",
            "wf_clean", "actors_process", "mig_fetch", "mig_insert"}
SecondsOfDay(t) == (t.hour * 60 + t.minute) * 60 + t.second
\* The cut-off string configured for a handler class is a time of day.
CutOffConfigured(cls) ==
    parse_time(DictGet(get_handler_config(handlers_section, Lower(cls)),
                       "cut_off_time", DefaultCutOffStr)).ok

\* C1: in every loop iteration of _run_handlers that invokes run(), the
\* instance is the one constructed in that iteration, of the iteration's
\* handler class; run() is never invoked on an instance built for an earlier
\* handler class.
C1_RunOnOwnInstance ==
    \A i \in 1..Len(done) :
        done[i].inst # 0 => done[i].inst = i /\ done[i].inst_cls = done[i].cls

\* C2: when _run_handlers has returned, run() was invoked for every
\* discovered handler whose configuration is valid, whichever of the other
\* handlers failed, and every failure was logged.
C2_EveryHandlerRun ==
    pc = "done" =>
        /\ Len(done) = Len(handlers)
        /\ \A i \in 1..Len(done) :
              CutOffConfigured(handlers[i]) =>
                  /\ done[i].result \in Terminal
                  /\ done[i].inst_cls = handlers[i]
                  /\ done[i].result = "FAILED" => done[i].failed

\* C3: a _process_once invocation in which a database operation failed does
\* not return: the error comes out of it, run() ends FAILED and the
\* dispatcher logs the failure.
C3_DbErrorPropagates ==
    db_error # "none" =>
        /\ results # <<>>
        /\ results[Len(results)] = "raise"
        /\ rstate = "FAILED"
        /\ done[Len(done)].failed

\* C4: when the K-th invocation of _process_once raises, run() has invoked it
\* exactly K times (the earlier ones returned not-finished), invokes it no
\* further, logs the exception and neither completion nor deferral, and the
\* exception comes out of run(), whose state is FAILED.
C4_RaiseEndsRunFailed ==
    (results # <<>> /\ results[Len(results)] = "raise") =>
        /\ calls = Len(results)
        /\ \A k \in 1..(calls - 1) : results[k] = "False"
        /\ rstate = "FAILED"
        /\ pc \in {"dispatch", "done"}
        /\ runlog = <<"started", "exception", "teardown">>
        /\ done[Len(done)].result = "FAILED"
        /\ done[Len(done)].failed

\* C4 witness: a run() whose second invocation raised.
C4_Witness == rstate = "FAILED" /\ calls = 2 /\ results = <<"False", "raise">>

\* C5: when the time of day at the entry of run() is the cut-off or later,
\* run() invokes _process_once zero times, logs the deferral and not the
\* completion, ends DEFERRED and returns normally.
C5_PastCutOffAtEntry ==
    [][(/\ pc = "run_check"
        /\ calls = 0
        /\ SecondsOfDay(Now) >= SecondsOfDay(handler.cut_off_time))
       => /\ calls' = 0
          /\ results' = <<>>
          /\ rstate' = "DEFERRED"
          /\ runlog' = <<"started", "deferred", "teardown">>
          /\ pc' = "dispatch"
          /\ done' = Append(done, [cls |-> handlers[idx + 1], inst |-> handler.id,
                                   inst_cls |-> handler.cls, result |-> "DEFERRED",
                                   failed |-> FALSE])]_vars

\* C5 witness: a run() entered at exactly the cut-off hour has ended.
C5_Witness ==
    /\ rstate = "DEFERRED"
    /\ calls = 0
    /\ SecondsOfDay(Now) = SecondsOfDay(handler.cut_off_time)

\* C6: when the N-th invocation of _process_once is the first to return
\* finished, run() has invoked it exactly N times, invokes it no further and
\* ends FINISHED with the completion logged.
C6_FinishedOnNth ==
    (results # <<>> /\ results[Len(results)] = "True") =>
        /\ calls = Len(results)
        /\ \A k \in 1..(calls - 1) : results[k] = "False"
        /\ rstate = "FINISHED"
        /\ pc \in {"dispatch", "done"}
        /\ runlog = <<"started", "completed", "teardown">>
        /\ done[Len(done)].result = "FINISHED"
        /\ ~done[Len(done)].failed

\* C6 witness: a run() that finished on its third invocation.
C6_Witness == rstate = "FINISHED" /\ calls = 3 /\ db_error = "none"

\* C7: after a not-finished batch run() checks the cut-off again; a check
\* that sees a time of day before the cut-off invokes _process_once once
\* more, a check that sees the cut-off or a later time ends the run DEFERRED
\* without another invocation.
C7_LoopUntilCutOff ==
    /\ [](rstate = "DEFERRED" => pc \in {"dispatch", "done"})
    /\ [][/\ (Len(results') > Len(results) /\ results'[Len(results')] = "False")
             => (pc' = "run_check" /\ rstate' = "LOOPING")
          /\ pc = "run_check"
             => IF SecondsOfDay(Now) >= SecondsOfDay(handler.cut_off_time)
                THEN /\ rstate' = "DEFERRED"
                     /\ calls' = calls
                     /\ results' = results
                     /\ pc' = "dispatch"
                ELSE /\ rstate' = "LOOPING"
                     /\ calls' = calls + 1
                     /\ pc' \in InBatch]_vars

\* C7 witness: a run() started before the cut-off was deferred after two
\* batches that did not finish.
C7_Witness == rstate = "DEFERRED" /\ calls = 2 /\ results = <<"False", "False">>

\* C8: within one dispatch run() is invoked at most once on any handler
\* instance.
C8_RunOncePerInstance ==
    \A i, j \in 1..Len(done) :
        (i < j /\ done[i].inst # 0) => done[j].inst # done[i].inst

\* C9: when an operation of the cascading batch (the selects, the DELETE of
\* the actors, of the steps or of the items) fails, the committed workflow
\* tables are those the batch started with.
C9_BatchAllOrNothing ==
    db_error \in {"select", "actors", "steps", "items"} =>
        WorkflowSnapshot = batch_start

\* C10: no commit removes an item and leaves one of its steps, nor removes a
\* step and leaves one of its actors; when the batch's items are about to be
\* deleted its steps and their actors are gone, and when its steps are about
\* to be deleted their actors are gone.
C10_CascadeOrder ==
    /\ [](/\ pc = "wf_steps" =>
               \A a \in workflowruntimeactors :
                   RuntimeStepIdOf(a) \notin locals.step_ids
          /\ pc = "wf_items" =>
               \A st \in workflowruntimesteps :
                   RuntimeItemIdOf(st) \notin locals.item_ids)
    /\ [][/\ \A st \in workflowruntimesteps' :
                 RuntimeItemIdOf(st) \in workflowruntimeitem
                     => RuntimeItemIdOf(st) \in workflowruntimeitem'
          /\ \A a \in workflowruntimeactors' :
                 RuntimeStepIdOf(a) \in workflowruntimesteps
                     => RuntimeStepIdOf(a) \in workflowruntimesteps']_vars

\* C10 witness: a batch has deleted actors, then steps, then its items.
C10_Witness ==
    /\ pc = "wf_clean"
    /\ locals.item_ids # {}
    /\ locals.item_ids \cap workflowruntimeitem = {}
    /\ batch_start.steps # workflowruntimesteps
    /\ batch_start.actors # workflowruntimeactors

\* The candidate rows of the handler's parent selection in the tables `t`.
StaleWorkInfo(t) == {id \in t : WorkInfoStale(id)}
StaleItems(t) == {i \in t : ItemStale(i)}

\* C11 as stated: a batch that selects fewer rows than its limit (the last
\* row of three with a limit of two) exhausts the candidates and returns
\* finished, so no further invocation is needed.
C11_PartialBatchFinishes ==
    [][(/\ pc = "resource_process"
        /\ db_error' = "none"
        /\ Cardinality(StaleWorkInfo(tb_workresourceinfo)) < handler.batch_size)
       => results' = Append(results, "True")]_vars

\* C11: a batch without a database error returns finished exactly when its
\* selection found no candidate row, and otherwise deletes the batch_size
\* candidates of smallest Id and returns not finished; so a run over n
\* candidates with limit b that ends FINISHED made ceil(n / b) not-finished
\* invocations and one more that found nothing (three rows, limit two: the
\* batches of two and of one row return not finished, the third finished).
C11_FinishedOnlyOnEmptySelect ==
    /\ [][(Len(results') > Len(results) /\ db_error' = "none") =>
            LET before == IF handler.cls = DeleteResourceHandler
                          THEN StaleWorkInfo(tb_workresourceinfo)
                          ELSE StaleItems(batch_start.item)
                after == IF handler.cls = DeleteResourceHandler
                         THEN StaleWorkInfo(tb_workresourceinfo')
                         ELSE StaleItems(workflowruntimeitem')
            IN /\ results'[Len(results')] = (IF before = {} THEN "True" ELSE "False")
               /\ after = before \ OrderByIdLimit(before, handler.batch_size)]_vars
    /\ [](/\ pc = "dispatch"
          /\ Len(done) = 1
          /\ done[1].cls = DeleteResourceHandler
          /\ done[1].result = "FINISHED"
          /\ basic_resourceitem # ResourceItemIds
          => /\ calls = (MaxRows + handler.batch_size - 1) \div handler.batch_size + 1
             /\ \A k \in 1..calls : results[k] = (IF k = calls THEN "True" ELSE "False")
             /\ StaleWorkInfo(tb_workresourceinfo) = {})

\* C11 witness: three candidate rows and a limit of two took three
\* invocations.
C11_Witness ==
    /\ pc = "dispatch"
    /\ Len(done) = 1
    /\ done[1].cls = DeleteResourceHandler
    /\ results = <<"False", "False", "True">>
    /\ basic_resourceitem # ResourceItemIds
    /\ handler.batch_size = 2

\* The rows the parent selection of the running handler matched when the
\* batch began (the batch of DeleteResourceHandler is one step).
ParentCandidates ==
    CASE handler.cls = DeleteResourceHandler -> StaleWorkInfo(tb_workresourceinfo)
      [] handler.cls = DeleteWorkflowHandler -> StaleItems(batch_start.item)
      [] handler.cls = DeleteActorsHandler ->
            ActorCandidates(workflowruntimeitems, batch_start.steps, batch_start.actors)
      [] OTHER -> {}
DeletionHandlers == {DeleteResourceHandler, DeleteWorkflowHandler, DeleteActorsHandler}

\* C12: a batch of a deletion handler whose parent selection finds no row
\* returns finished and leaves every table as it was when the batch began.
C12_EmptySelectNoOp ==
    [][(/\ Len(results') > Len(results)
        /\ db_error' = "none"
        /\ handler.cls \in DeletionHandlers
        /\ ParentCandidates = {})
       => /\ results' = Append(results, "True")
          /\ resource_tables' = resource_tables
          /\ WorkflowSnapshot' = batch_start]_vars

\* The rows the parent selection of a handler of class cls matches in the
\* given tables.
CandidatesIn(cls, workinfo, item, steps, actors) ==
    CASE cls = DeleteResourceHandler -> StaleWorkInfo(workinfo)
      [] cls = DeleteWorkflowHandler -> StaleItems(item)
      [] cls = DeleteActorsHandler -> ActorCandidates(workflowruntimeitems, steps, actors)
      [] OTHER -> {}

\* C13: a batch of a deletion handler that meets no database error returns
\* not finished exactly when its parent selection matched a row, and then
\* the rows that match afterwards are a proper subset of those that matched
\* before; a run() that ends FINISHED after such a batch leaves no matching
\* row.  The candidates being finitely many, every run() of a deletion
\* handler ends: FINISHED unless the cut-off or an error ends it before.
C13_BatchesConverge ==
    /\ [][(/\ Len(results') > Len(results)
           /\ db_error' = "none"
           /\ handler.cls \in DeletionHandlers)
          => LET before == ParentCandidates
                 after == CandidatesIn(handler.cls, tb_workresourceinfo',
                                       workflowruntimeitem', workflowruntimesteps',
                                       workflowruntimeactors')
             IN IF before = {}
                THEN results' = Append(results, "True") /\ after = {}
                ELSE /\ results' = Append(results, "False")
                     /\ after \subseteq before
                     /\ after # before
                     /\ Cardinality(before \ after) =
                           (IF Cardinality(before) < handler.batch_size
                            THEN Cardinality(before) ELSE handler.batch_size)]_vars
    /\ [](/\ rstate = "FINISHED"
          /\ db_error = "none"
          /\ handler.cls \in DeletionHandlers
          => CandidatesIn(handler.cls, tb_workresourceinfo, workflowruntimeitem,
                          workflowruntimesteps, workflowruntimeactors) = {})
    /\ (rstate = "LOOPING" /\ handler.cls \in DeletionHandlers)
           ~> (rstate \in {"FINISHED", "DEFERRED"} \/ db_error # "none")

\* C13 witness: DeleteActorsHandler finished after two batches that each
\* took one of two candidate items.
C13_Witness ==
    /\ rstate = "FINISHED"
    /\ handler.cls = DeleteActorsHandler
    /\ db_error = "none"
    /\ results = <<"False", "False", "True">>

\* The number of entries `entry` in a log.
CountOf(log, entry) == Cardinality({k \in DOMAIN log : log[k] = entry})
\* The cut-off string the configuration holds for a handler class.
CutOffStrOf(cls) ==
    DictGet(get_handler_config(handlers_section, Lower(cls)), "cut_off_time",
            DefaultCutOffStr)

\* C14: a run() call logs its start once, before its first _process_once,
\* and logs the end of the run once, as its last entry, whether it ends
\* FINISHED, DEFERRED or FAILED; while batches go on the start entry is the
\* only entry.
C14_StartAndTeardownOnce ==
    /\ [](/\ rstate = "NOT_STARTED" => runlog = <<>>
          /\ rstate = "LOOPING" => runlog = <<"started">>
          /\ rstate \in Terminal =>
                /\ Head(runlog) = "started"
                /\ runlog[Len(runlog)] = "teardown"
                /\ CountOf(runlog, "started") = 1
                /\ CountOf(runlog, "teardown") = 1)
    /\ [][(CountOf(runlog', "started") > 0 /\ runlog' # runlog)
             => IF runlog' = <<"started">>
                THEN calls' = 0 /\ results' = <<>>
                ELSE runlog # <<>> /\ Head(runlog) = "started"]_vars

\* C14 witness: a run() that raised after a batch wrote both entries.
C14_Witness ==
    /\ rstate = "FAILED"
    /\ calls > 0
    /\ runlog = <<"started", "exception", "teardown">>

\* C15: a loop iteration of _run_handlers whose handler has a cut_off_time
\* that is no time of day constructs nothing, invokes no run() and no
\* _process_once, changes no table, logs the failure and leaves the
\* dispatcher at the next discovered handler; the handlers after it are
\* still dispatched.
C15_BadCutOffSkipsHandler ==
    /\ [][(/\ pc = "dispatch"
           /\ idx < Len(handlers)
           /\ CutOffStrOf(handlers[idx + 1]) \in BadCutOffStrs)
          => /\ done' = Append(done, [cls |-> handlers[idx + 1], inst |-> 0,
                                      inst_cls |-> "", result |-> "NOT_RUN",
                                      failed |-> TRUE])
             /\ handler' = handler
             /\ calls' = 0
             /\ results' = <<>>
             /\ runlog' = <<>>
             /\ resource_tables' = resource_tables
             /\ workflow_tables' = workflow_tables
             /\ idx' = idx + 1
             /\ pc' = "dispatch"]_vars
    /\ [](pc = "done" => Len(done) = Len(handlers))

\* C15 witness: the first handler had cut-off "24:00" and was skipped, the
\* second one ran a batch.
C15_Witness ==
    /\ Len(done) = 2
    /\ CutOffStrOf(done[1].cls) \in BadCutOffStrs
    /\ done[1].result = "NOT_RUN"
    /\ done[2].result \in Terminal
    /\ done[2].inst = 2
    /\ calls > 0

\* C16: when _run_handlers has returned, its iterations are those of the
\* classes of the importable modules in configured order, the names that
\* cannot be imported left out, and each of these classes whose
\* configuration is valid was run.
C16_ImportableModulesRun ==
    pc = "done" =>
        LET importable == SelectSeq(handler_modules, Importable)
        IN /\ Len(done) = Len(importable)
           /\ \A i \in 1..Len(done) :
                 /\ <<done[i].cls>> = ModuleClasses(importable[i])
                 /\ CutOffStrOf(done[i].cls) \notin BadCutOffStrs =>
                       /\ done[i].result \in Terminal
                       /\ done[i].inst_cls = done[i].cls

\* C17: a run() call that has ended is in one of FINISHED, DEFERRED, FAILED
\* and has logged exactly one of completion, deferral and exception, the one
\* of its state; from then on the call checks no cut-off, invokes no
\* _process_once and keeps its state.
C17_OneTerminalState ==
    /\ [](/\ pc \in {"dispatch", "done"} => rstate \in Terminal \cup {"NOT_STARTED"}
          /\ rstate \in Terminal =>
                /\ pc \in {"dispatch", "done"}
                /\ CountOf(runlog, "completed") = (IF rstate = "FINISHED" THEN 1 ELSE 0)
                /\ CountOf(runlog, "deferred") = (IF rstate = "DEFERRED" THEN 1 ELSE 0)
                /\ CountOf(runlog, "exception") = (IF rstate = "FAILED" THEN 1 ELSE 0))
    /\ [][(rstate \in Terminal) =>
             (\/ /\ rstate' = rstate
                 /\ calls' = calls
                 /\ results' = results
                 /\ runlog' = runlog
              \/ /\ calls' = 0
                 /\ results' = <<>>
                 /\ IF runlog' = <<>>
                    THEN rstate' = "NOT_STARTED" /\ Len(done') = Len(done) + 1
                    ELSE runlog' = <<"started">> /\ done' = done)]_vars

\* C17 witness: the dispatcher has returned after a run() that finished and
\* a run() that was deferred.
C17_Witness ==
    /\ pc = "done"
    /\ Len(done) = 2
    /\ done[1].result = "FINISHED"
    /\ done[2].result = "DEFERRED"

\* C18: the loop iteration of position i+1 begins only when the iterations
\* of positions 1..i have ended, each with the handler class discovered at
\* its position; a run() is in its loop only in the iteration that follows
\* them, so no two run() calls are in progress together.
C18_SequentialInOrder ==
    /\ [](/\ Len(done) = idx
          /\ idx <= Len(handlers)
          /\ \A i \in 1..Len(done) :
                /\ done[i].cls = handlers[i]
                /\ done[i].result \in Terminal \cup {"NOT_RUN"}
          /\ rstate = "LOOPING" <=> pc \in {"run_check"} \cup InBatch
          /\ rstate = "LOOPING" => idx < Len(handlers) /\ handler.bound)
    /\ [][(rstate' = "LOOPING" /\ rstate # "LOOPING")
             => /\ pc = "dispatch"
                /\ rstate \in Terminal \cup {"NOT_STARTED"}
                /\ done' = done
                /\ calls' = 0]_vars

\* C18 witness: the run() of the second position is in a batch after the
\* run() of the first position failed.
C18_Witness ==
    /\ Len(done) = 1
    /\ done[1].result = "FAILED"
    /\ rstate = "LOOPING"
    /\ pc \in InBatch
    /\ calls = 2

\* C19: whenever run() checks the cut-off, and when it has returned or
\* raised, the handler holds no open connection (and so no uncommitted
\* transaction): every return and every exception of _process_once leaves
\* the with statements of all connections of the batch.
C19_NoConnectionOutlivesBatch ==
    /\ [](/\ pc \in {"main", "run_check", "dispatch"} => conns = {}
          /\ rstate \in Terminal => conns = {})
    /\ [][Len(results') > Len(results) => conns' = {}]_vars

\* C19 witness: the DELETE of the steps raised while the connections of
\* _process_workflowruntimeitem and _process_steps were open, and the run
\* has ended.
C19_Witness ==
    /\ db_error = "steps"
    /\ rstate \in Terminal
    /\ pc = "dispatch"
    /\ conns = {}

\* C20: when the INSERT of a record of a MigrationHandler batch fails, the
\* target table holds no record of that batch, the error comes out of
\* _process_once and run() ends FAILED.
C20_InsertFailureRollsBack ==
    db_error = "insert" =>
        /\ target_table = batch_start.target
        /\ results # <<>>
        /\ results[Len(results)] = "raise"
        /\ rstate = "FAILED"

\* C22: when a batch returns finished at a time of day that is the cut-off
\* or later, run() ends FINISHED with the completion logged and the deferral
\* not logged, and checks the cut-off no more.
C22_FinishedBeforeCutOffCheck ==
    [][(/\ Len(results') > Len(results)
        /\ results'[Len(results')] = "True"
        /\ SecondsOfDay(Now') >= SecondsOfDay(handler.cut_off_time))
       => /\ rstate' = "FINISHED"
          /\ runlog' = <<"started", "completed", "teardown">>
          /\ CountOf(runlog', "deferred") = 0
          /\ calls' = calls
          /\ pc' = "dispatch"
          /\ done'[Len(done')].result = "FINISHED"]_vars

\* C22 witness: the second batch of a run began before the cut-off and
\* returned finished after it.
C22_Witness ==
    /\ rstate = "FINISHED"
    /\ db_error = "none"
    /\ results = <<"False", "True">>
    /\ pc = "dispatch"
    /\ SecondsOfDay(Now) > SecondsOfDay(handler.cut_off_time)

\* C23: in a run that started on day 0, a batch is started only at an
\* instant before the first one at which the cut-off is reached on that
\* day, also when the previous batch returned after midnight.
C23_NoBatchAfterCutOffInstant ==
    [][(/\ pc = "run_check"
        /\ idx = 0
        /\ calls' = calls + 1)
       => clock * 3600 < SecondsOfDay(handler.cut_off_time)]_vars

\* C24: across the batches of one run() no source row is inserted into the
\* target table more than once.
C24_EachRowCopiedAtMostOnce ==
    \A id \in DOMAIN target_table : target_table[id] <= 1

\* C25: _process_once of DeleteWorkflowHandler returns True only in an
\* invocation whose selection on workflowruntimeitem and whose selection of
\* 90-day-old workflowruntimeitems rows were both empty.
C25_FinishedOnlyWhenBothQueuesEmpty ==
    [][(/\ pc = "wf_clean"
        /\ Len(results') > Len(results)
        /\ db_error' = "none"
        /\ results'[Len(results')] = "True")
       => /\ StaleItems(batch_start.item) = {}
          /\ OrderByIdLimit(workflowruntimeitems \cap OldItemIds,
                            handler.batch_size) = {}]_vars

\* C21: every SELECT of parent rows in a run() returns the
\* min(batch_size, number of candidates) candidates with the smallest
\* primary keys, never more than batch_size rows, and no row that an
\* earlier batch of the same run selected from the same table.
C21_BoundedOrderedDisjointBatches ==
    selected.table # "" =>
        LET n == Cardinality(selected.candidates)
        IN /\ Cardinality(selected.ids) =
                  (IF n < handler.batch_size THEN n ELSE handler.batch_size)
           /\ selected.ids = OrderByIdLimit(selected.candidates, handler.batch_size)
           /\ Cardinality(selected.ids) <= handler.batch_size
           /\ \A id \in selected.ids : <<selected.table, id>> \notin selected.earlier

====
